---- MODULE Spec2Model ----
(***************************************************************************)
(* Playback / highlighting state machine of the PDF reader front end       *)
(* (class PDFReaderApp, map-based variant, src/frontend/src/app.ts:1-792). *)
(*                                                                         *)
(* Every handler of the class is an operator from a state record to the    *)
(* state record the handler leaves behind; an action applies one handler   *)
(* (with everything it calls) to the current state.  The browser's event   *)
(* loop is the interleaving of the actions: user events, speech events,    *)
(* timer continuations and the completion of an upload.                    *)
(*                                                                         *)
(* Offsets and indexes are zero-based as in the source; a text is a        *)
(* sequence of one-character strings, so the character at offset k of a    *)
(* text is text[k + 1].                                                    *)
(***************************************************************************)
EXTENDS Integers, Sequences, FiniteSets, TLC

VARIABLES
    currentPDF,             \* 0 = null, d > 0 = the document Docs[d]
    isPlaying,
    isPaused,
    currentPageIndex,
    currentWordIndex,
    speechRate,
    wordElements,           \* the Map: key <<page, word>> -> class list of the element
    keyboardListenerActive,
    isImageView,
    skipHeaderFooter,
    currentWordsData,
    synth,                  \* window.speechSynthesis: utterance queue and paused flag
    timers,                 \* pending setTimeout(() => this.startReading()) callbacks
    stale,                  \* the cancelled utterances whose end/error event is still to come
    uploads,                \* axios.post calls in flight
    disabled,               \* the disabled property of each control
    textContent,            \* the label of playBtn and toggleViewBtn
    statusText,
    pdfPages,               \* children of the #pdfPages container
    observe,                \* history: whether speak() calls are being recorded
    dispatched,             \* history: the utterances handed to speak(), oldest first
    inputText,              \* the text given to the tokenizer (specification SpecTokens)
    container               \* the child nodes createWordElements gave its container

vars == << currentPDF, isPlaying, isPaused, currentPageIndex, currentWordIndex,
           speechRate, wordElements, keyboardListenerActive, isImageView,
           skipHeaderFooter, currentWordsData, synth, timers, stale, uploads,
           disabled, textContent, statusText, pdfPages, observe, dispatched,
           inputText, container >>

(***************************************************************************)
(* Bounds of the model.                                                    *)
(***************************************************************************)
MaxQueue   == 2     \* utterances held by the speech capability at once
MaxTimers  == 1     \* pending timer continuations
MaxStale   == 1     \* cancelled utterances whose event is still to be delivered
MaxUploads == 1     \* uploads in flight
MaxLen     == 4     \* characters of a text given to the tokenizer on its own

(***************************************************************************)
(* Texts.                                                                  *)
(***************************************************************************)
WordChars == {"T", "h", "e", "c", "a", "t", "s", "o", "n", "m", "H", "1", "2", "_"}
OtherChars == {" ", ".", "!"}

SP == <<" ">>
The == <<"T", "h", "e">>
cat == <<"c", "a", "t">>
sat == <<"s", "a", "t">>
on == <<"o", "n">>
mat == <<"m", "a", "t">>

WordData(w, s) == [word |-> w, start_pos |-> s, end_pos |-> s + Len(w)]

(***************************************************************************)
(* The documents the processing service can return.                        *)
(*   1: the document of the scenarios; page 1 has 3 processed words and 5  *)
(*      words in its original text, page 2 has 2 words and no image.       *)
(*   2: two pages of one processed word each; the original text of page 1  *)
(*      has a header word in front.                                        *)
(*   3: three pages without any processed word; the original text has one  *)
(*      word, on page 2, between two pages without words.                  *)
(***************************************************************************)
PageData(n, orig, proc, ws, img) ==
    [page_number |-> n, original_text |-> orig, processed_text |-> proc,
     words |-> ws, image |-> img]

Docs ==
    << [pages |-> << PageData(1, <<"H", " ", "1", " ">> \o The \o SP \o cat \o SP \o sat,
                              The \o SP \o cat \o SP \o sat,
                              << WordData(The, 0), WordData(cat, 4), WordData(sat, 8) >>,
                              TRUE),
                     PageData(2, on \o SP \o mat \o <<".">>,
                              on \o SP \o mat \o <<".">>,
                              << WordData(on, 0), WordData(mat, 3) >>,
                              FALSE) >>,
        header_patterns |-> 1, footer_patterns |-> 0],
       [pages |-> << PageData(1, <<"H", " ">> \o on, on, << WordData(on, 0) >>, TRUE),
                     PageData(2, mat \o <<".">>, mat \o <<".">>,
                              << WordData(mat, 0) >>, FALSE) >>,
        header_patterns |-> 1, footer_patterns |-> 0],
       [pages |-> << PageData(1, <<".", ".">>, <<".", ".">>, <<>>, FALSE),
                     PageData(2, <<"H", "!">>, <<"!">>, <<>>, FALSE),
                     PageData(3, <<>>, <<>>, <<>>, FALSE) >>,
        header_patterns |-> 1, footer_patterns |-> 0] >>

DocIds == 1..Len(Docs)

\* the documents an upload can return in the specifications that run uploads
UploadDocs == {2, 3}

Rates == {1, 12}    \* values the speed control can deliver

(***************************************************************************)
(* Tokenizer: /\b\w+\b/g applied with exec() until it returns null.        *)
(***************************************************************************)
IsWordChar(text, k) == k >= 0 /\ k < Len(text) /\ text[k + 1] \in WordChars

\* \b at offset k: exactly one side of the position is a word character
WordBoundary(text, k) == IsWordChar(text, k - 1) # IsWordChar(text, k)

\* the end offsets e > k such that text[k..e) is a run of word characters
RunEnds(text, k) ==
    {e \in (k + 1)..Len(text) : \A i \in k..(e - 1) : IsWordChar(text, i)}

\* MatchAt for the lazy pattern \b\w+?: the match ends after one character
MatchAtLazy(text, k) ==
    IF WordBoundary(text, k) /\ RunEnds(text, k) # {}
    THEN k + 1
    ELSE -1

\* end offset of the match of \b\w+\b starting at k (greedy \w+, backtracking), or -1
MatchAt(text, k) ==
    LET ends == {e \in RunEnds(text, k) : WordBoundary(text, e)}
    IN  IF WordBoundary(text, k) /\ ends # {}
        THEN CHOOSE e \in ends : \A f \in ends : f <= e
        ELSE -1

RECURSIVE execLoop(_, _, _)
execLoop(text, lastIndex, words) ==
    LET starts == {k \in lastIndex..Len(text) : MatchAt(text, k) # -1}
    IN  IF starts = {}
        THEN words
        ELSE LET k == CHOOSE j \in starts : \A i \in starts : j <= i
                 e == MatchAt(text, k)
             IN  execLoop(text, e,
                          Append(words, [word |-> SubSeq(text, k + 1, e),
                                         start_pos |-> k, end_pos |-> e]))

extractWordsFromText(text) == execLoop(text, 0, <<>>)

(***************************************************************************)
(* The state as one record, so that a handler is a function of states.     *)
(***************************************************************************)
St ==
    [currentPDF |-> currentPDF, isPlaying |-> isPlaying, isPaused |-> isPaused,
     currentPageIndex |-> currentPageIndex, currentWordIndex |-> currentWordIndex,
     speechRate |-> speechRate, wordElements |-> wordElements,
     keyboardListenerActive |-> keyboardListenerActive,
     isImageView |-> isImageView, skipHeaderFooter |-> skipHeaderFooter,
     currentWordsData |-> currentWordsData, synth |-> synth, timers |-> timers,
     stale |-> stale, uploads |-> uploads, disabled |-> disabled,
     textContent |-> textContent, statusText |-> statusText,
     pdfPages |-> pdfPages, observe |-> observe, dispatched |-> dispatched]

Becomes(t) ==
    /\ currentPDF' = t.currentPDF
    /\ isPlaying' = t.isPlaying
    /\ isPaused' = t.isPaused
    /\ currentPageIndex' = t.currentPageIndex
    /\ currentWordIndex' = t.currentWordIndex
    /\ speechRate' = t.speechRate
    /\ wordElements' = t.wordElements
    /\ keyboardListenerActive' = t.keyboardListenerActive
    /\ isImageView' = t.isImageView
    /\ skipHeaderFooter' = t.skipHeaderFooter
    /\ currentWordsData' = t.currentWordsData
    /\ synth' = t.synth
    /\ timers' = t.timers
    /\ stale' = t.stale
    /\ uploads' = t.uploads
    /\ disabled' = t.disabled
    /\ textContent' = t.textContent
    /\ statusText' = t.statusText
    /\ pdfPages' = t.pdfPages
    /\ observe' = t.observe
    /\ dispatched' = t.dispatched
    /\ UNCHANGED <<inputText, container>>

\* the bounds of the model, as a guard on the state a step leads to
WithinBounds(t) ==
    /\ Len(t.synth.queue) <= MaxQueue
    /\ t.timers <= MaxTimers
    /\ t.uploads <= MaxUploads

Min(a, b) == IF a <= b THEN a ELSE b

HighlightClasses == {"current-word", "spoken-word", "clicked-start"}

(***************************************************************************)
(* The speech capability (window.speechSynthesis).  speak() appends to the *)
(* queue; the head of the queue starts when the capability is not paused;  *)
(* cancel() empties the queue and does not change the paused state.  The   *)
(* event of a cancelled utterance is delivered later, as a task of its     *)
(* own: end or error for an utterance that had begun to be spoken, error   *)
(* for one that had not (see StaleEnd, StaleError).                        *)
(***************************************************************************)
speaking(s) == Len(s.synth.queue) > 0 /\ s.synth.queue[1].started

speak(s, u) ==
    [s EXCEPT !.synth.queue = Append(@, u),
              !.dispatched = IF s.observe
                             THEN Append(@, [at |-> u.at, text |-> u.text])
                             ELSE @]

cancel(s, by) ==
    LET all == s.stale \o [i \in 1..Len(s.synth.queue) |->
                              [by |-> by, started |-> s.synth.queue[i].started]]
    IN  [s EXCEPT !.synth.queue = <<>>,
                  !.stale = SubSeq(all, 1, Min(MaxStale, Len(all)))]

pause(s) == [s EXCEPT !.synth.paused = TRUE]

resume(s) == [s EXCEPT !.synth.paused = FALSE]

(***************************************************************************)
(* Status channel and controls.                                            *)
(***************************************************************************)
updateStatus(s, message) == [s EXCEPT !.statusText = message]

updateControlsState(s) ==
    IF s.isPlaying /\ ~s.isPaused
    THEN [s EXCEPT !.textContent.playBtn = "Playing...",
                   !.disabled.playBtn = TRUE,
                   !.disabled.pauseBtn = FALSE]
    ELSE IF s.isPaused
    THEN [s EXCEPT !.textContent.playBtn = "Resume",
                   !.disabled.playBtn = FALSE,
                   !.disabled.pauseBtn = TRUE]
    ELSE [s EXCEPT !.textContent.playBtn = "Play",
                   !.disabled.playBtn = FALSE,
                   !.disabled.pauseBtn = TRUE]

enableControls(s) ==
    [s EXCEPT !.disabled = [c \in DOMAIN s.disabled |-> FALSE]]

(***************************************************************************)
(* Highlighting through the Word Index.                                    *)
(***************************************************************************)
\* findWordElement that looks up the first word of the page
findWordElementOfPage(s, pageIndex, wordIndex) ==
    IF <<pageIndex, 0>> \in DOMAIN s.wordElements
    THEN <<pageIndex, 0>>
    ELSE <<>>

\* the key of the element, or <<>> for null
findWordElement(s, pageIndex, wordIndex) ==
    IF <<pageIndex, wordIndex>> \in DOMAIN s.wordElements
    THEN <<pageIndex, wordIndex>>
    ELSE <<>>

\* clearHighlighting that removes the marks of the word in progress only
clearHighlightingKeepsSpoken(s) ==
    [s EXCEPT !.wordElements =
        [k \in DOMAIN s.wordElements |->
            s.wordElements[k] \ {"current-word", "clicked-start"}]]

clearHighlighting(s) ==
    [s EXCEPT !.wordElements =
        [k \in DOMAIN s.wordElements |-> s.wordElements[k] \ HighlightClasses]]

\* highlightCurrentWord that leaves the mark of a seek target in place
highlightCurrentWordKeepsClicked(s) ==
    LET cleared == [k \in DOMAIN s.wordElements |->
                        s.wordElements[k] \ {"current-word"}]
        wordElement == findWordElement(s, s.currentPageIndex, s.currentWordIndex)
    IN  IF wordElement # <<>>
        THEN [s EXCEPT !.wordElements =
                 [cleared EXCEPT ![wordElement] = @ \cup {"current-word"}]]
        ELSE [s EXCEPT !.wordElements = cleared]

highlightCurrentWord(s) ==
    LET cleared == [k \in DOMAIN s.wordElements |->
                        s.wordElements[k] \ {"current-word", "clicked-start"}]
        wordElement == findWordElement(s, s.currentPageIndex, s.currentWordIndex)
    IN  IF wordElement # <<>>
        THEN [s EXCEPT !.wordElements =
                 [cleared EXCEPT ![wordElement] = @ \cup {"current-word"}]]
        ELSE [s EXCEPT !.wordElements = cleared]

markWordAsSpoken(s) ==
    LET wordElement == findWordElement(s, s.currentPageIndex, s.currentWordIndex)
    IN  IF wordElement # <<>>
        THEN [s EXCEPT !.wordElements[wordElement] =
                 (@ \ {"current-word"}) \cup {"spoken-word"}]
        ELSE s

(***************************************************************************)
(* Playback engine.                                                        *)
(***************************************************************************)
\* handleStop that also rewinds the cursor to the start of the document
handleStopRewinds(s) ==
    LET s1 == cancel(s, "Stop")
        s2 == [s1 EXCEPT !.isPlaying = FALSE, !.isPaused = FALSE,
                         !.currentPageIndex = 0, !.currentWordIndex = 0]
        s3 == clearHighlighting(s2)
        s4 == updateControlsState(s3)
    IN  updateStatus(s4, <<"Reading stopped">>)

handleStop(s) ==
    LET s1 == cancel(s, "Stop")
        s2 == [s1 EXCEPT !.isPlaying = FALSE, !.isPaused = FALSE]
        s3 == clearHighlighting(s2)
        s4 == updateControlsState(s3)
    IN  updateStatus(s4, <<"Reading stopped">>)

PageCount(s) == IF s.currentPDF = 0 THEN 0 ELSE Len(Docs[s.currentPDF].pages)

\* WordsOfPage that reads the processed words of the document, whatever the source
WordsOfPageProcessed(s, pageIndex) ==
    IF s.currentPDF # 0 /\ pageIndex + 1 \in DOMAIN Docs[s.currentPDF].pages
    THEN Docs[s.currentPDF].pages[pageIndex + 1].words
    ELSE <<>>

\* this.currentWordsData[pageIndex] || []
WordsOfPage(s, pageIndex) ==
    IF pageIndex + 1 \in DOMAIN s.currentWordsData
    THEN s.currentWordsData[pageIndex + 1]
    ELSE <<>>

\* the utterance created with the rate of the speed control as it is
UtteranceAtStoredRate(s, currentWord) ==
    [text |-> currentWord.word,
     rate |-> s.speechRate,
     at |-> <<s.currentPageIndex, s.currentWordIndex>>,
     started |-> FALSE]

\* new SpeechSynthesisUtterance(currentWord.word) with its rate; at is the
\* cursor at the time of the call, started whether it has begun to be spoken
Utterance(s, currentWord) ==
    [text |-> currentWord.word,
     rate |-> Min(s.speechRate, 10),
     at |-> <<s.currentPageIndex, s.currentWordIndex>>,
     started |-> FALSE]

\* startReading that reports the end of the document without stopping
RECURSIVE startReadingOnlyReports(_)
startReadingOnlyReports(s) ==
    IF s.currentPDF = 0 \/ s.currentPageIndex >= PageCount(s)
    THEN updateStatus(s, <<"Finished reading the document.">>)
    ELSE LET wordsToUse == WordsOfPage(s, s.currentPageIndex)
         IN  IF s.currentWordIndex >= Len(wordsToUse)
             THEN startReadingOnlyReports([s EXCEPT !.currentPageIndex = @ + 1,
                                                    !.currentWordIndex = 0])
             ELSE LET currentWord == wordsToUse[s.currentWordIndex + 1]
                      s1 == highlightCurrentWord(s)
                  IN  speak(s1, Utterance(s, currentWord))

\* The branch for a null entry of the word list (app.ts:581-586) needs a word
\* list with a hole in it; the lists of Docs and of the tokenizer have none.
RECURSIVE startReading(_)
startReading(s) ==
    IF s.currentPDF = 0 \/ s.currentPageIndex >= PageCount(s)
    THEN updateStatus(handleStop(s), <<"Finished reading the document.">>)
    ELSE LET wordsToUse == WordsOfPage(s, s.currentPageIndex)
         IN  IF s.currentWordIndex >= Len(wordsToUse)
             THEN startReading([s EXCEPT !.currentPageIndex = @ + 1,
                                         !.currentWordIndex = 0])
             ELSE LET currentWord == wordsToUse[s.currentWordIndex + 1]
                      s1 == highlightCurrentWord(s)
                  IN  speak(s1, Utterance(s, currentWord))

\* currentUtterance.onstart of the utterance u
onstart(s, u) ==
    updateStatus(s, <<"Reading page", s.currentPageIndex + 1, u.text,
                      s.speechRate, s.skipHeaderFooter>>)

\* onend that does not schedule the next run of startReading
onendForgetsTimer(s) ==
    IF s.isPlaying /\ ~s.isPaused
    THEN LET s1 == markWordAsSpoken(s)
         IN  [s1 EXCEPT !.currentWordIndex = @ + 1]
    ELSE s

\* onend that advances by two words
onendSkipsWord(s) ==
    IF s.isPlaying /\ ~s.isPaused
    THEN LET s1 == markWordAsSpoken(s)
         IN  [s1 EXCEPT !.currentWordIndex = @ + 2, !.timers = @ + 1]
    ELSE s

\* currentUtterance.onend
onend(s) ==
    IF s.isPlaying /\ ~s.isPaused
    THEN LET s1 == markWordAsSpoken(s)
         IN  [s1 EXCEPT !.currentWordIndex = @ + 1, !.timers = @ + 1]
    ELSE s

\* currentUtterance.onerror
onerror(s) == updateStatus(s, <<"Error during speech synthesis">>)

\* handlePlay that speaks the current word anew instead of resuming it
handlePlayRestarts(s) ==
    IF s.currentPDF = 0
    THEN s
    ELSE IF s.isPaused
    THEN updateControlsState(startReading([resume(s) EXCEPT !.isPaused = FALSE]))
    ELSE updateControlsState(startReading([s EXCEPT !.isPlaying = TRUE]))

\* handlePlay that starts reading without raising isPlaying
handlePlayKeepsFlag(s) ==
    IF s.currentPDF = 0
    THEN s
    ELSE IF s.isPaused
    THEN updateControlsState([resume(s) EXCEPT !.isPaused = FALSE])
    ELSE updateControlsState(startReading(s))

\* handlePlay that starts over from the first word once the document is finished
handlePlayRewindsFinished(s) ==
    IF s.currentPDF = 0
    THEN s
    ELSE IF s.isPaused
    THEN updateControlsState([resume(s) EXCEPT !.isPaused = FALSE])
    ELSE IF s.statusText = <<"Finished reading the document.">>
    THEN updateControlsState(startReading([s EXCEPT !.isPlaying = TRUE,
                                                    !.currentPageIndex = 0,
                                                    !.currentWordIndex = 0]))
    ELSE updateControlsState(startReading([s EXCEPT !.isPlaying = TRUE]))

handlePlay(s) ==
    IF s.currentPDF = 0
    THEN s
    ELSE IF s.isPaused
    THEN updateControlsState([resume(s) EXCEPT !.isPaused = FALSE])
    ELSE updateControlsState(startReading([s EXCEPT !.isPlaying = TRUE]))

handlePause(s) ==
    IF speaking(s) /\ ~s.synth.paused
    THEN updateStatus(updateControlsState([pause(s) EXCEPT !.isPaused = TRUE]),
                      <<"Reading paused - Press Spacebar or click Resume to continue">>)
    ELSE s

\* handleSpeedChange that restarts at the first word of the page
handleSpeedChangeRestartsPage(s, value) ==
    LET s1 == [s EXCEPT !.speechRate = value]
    IN  IF s1.isPlaying /\ ~s1.isPaused
        THEN [cancel(s1, "SetRate") EXCEPT !.timers = @ + 1, !.currentWordIndex = 0]
        ELSE s1

handleSpeedChange(s, value) ==
    LET s1 == [s EXCEPT !.speechRate = value]
    IN  IF s1.isPlaying /\ ~s1.isPaused
        THEN [cancel(s1, "SetRate") EXCEPT !.timers = @ + 1]
        ELSE s1

\* markClickedStart that clears the marks and sets none
markClickedStartClearsOnly(s, pageIndex, wordIndex) ==
    LET s1 == IF s.isPlaying THEN handleStop(s) ELSE s
        s2 == [s1 EXCEPT !.currentPageIndex = pageIndex,
                         !.currentWordIndex = wordIndex]
    IN  clearHighlighting(s2)

\* jumpToWordAndPlay with a document loaded, up to the point where it starts to
\* read: playback stopped, cursor set, marks cleared, target marked
markClickedStart(s, pageIndex, wordIndex) ==
    LET s1 == IF s.isPlaying THEN handleStop(s) ELSE s
        s2 == [s1 EXCEPT !.currentPageIndex = pageIndex,
                         !.currentWordIndex = wordIndex]
        s3 == clearHighlighting(s2)
        clickedWordElement == findWordElement(s3, pageIndex, wordIndex)
    IN  IF clickedWordElement # <<>>
        THEN [s3 EXCEPT !.wordElements[clickedWordElement] =
                            @ \cup {"clicked-start"}]
        ELSE s3

\* jumpToWordAndPlay that starts at the first word of the page of the target
jumpToWordAndPlayPageStart(s, pageIndex, wordIndex) ==
    IF s.currentPDF = 0
    THEN s
    ELSE LET s1 == IF s.isPlaying THEN handleStop(s) ELSE s
             s2 == [s1 EXCEPT !.currentPageIndex = pageIndex,
                              !.currentWordIndex = 0]
             s3 == clearHighlighting(s2)
             s5 == [s3 EXCEPT !.isPlaying = TRUE, !.isPaused = FALSE]
         IN  updateControlsState(startReading(s5))

jumpToWordAndPlay(s, pageIndex, wordIndex) ==
    IF s.currentPDF = 0
    THEN s
    ELSE LET s4 == markClickedStart(s, pageIndex, wordIndex)
             s5 == [s4 EXCEPT !.isPlaying = TRUE, !.isPaused = FALSE]
             s6 == updateControlsState(startReading(s5))
             wordsToUse == WordsOfPage(s6, pageIndex)
         IN  IF wordIndex < Len(wordsToUse)
             THEN updateStatus(s6, <<"Started reading from page", pageIndex + 1,
                                     wordsToUse[wordIndex + 1].word>>)
             ELSE s6

togglePlayPause(s) ==
    IF s.currentPDF = 0 \/ ~s.keyboardListenerActive
    THEN s
    ELSE IF ~s.isPlaying
    THEN IF ~s.disabled.playBtn THEN handlePlay(s) ELSE s
    ELSE IF ~s.isPaused
    THEN IF ~s.disabled.pauseBtn THEN handlePause(s) ELSE s
    ELSE IF ~s.disabled.playBtn THEN handlePlay(s) ELSE s

(***************************************************************************)
(* Renderer.                                                               *)
(***************************************************************************)
\* String.prototype.slice(from, to) for 0 <= from
Slice(text, from, to) ==
    LET b == Min(to, Len(text))
    IN  IF from >= b THEN <<>> ELSE SubSeq(text, from + 1, b)

TextNode(data) == [type |-> "text", data |-> data, key |-> <<>>]
SpanNode(data, key) == [type |-> "span", data |-> data, key |-> key]

\* wordNodes that leaves out the text after the last word
RECURSIVE wordNodesDropsRest(_, _, _, _, _)
wordNodesDropsRest(pageIndex, text, words, wordIndex, lastIndex) ==
    IF wordIndex >= Len(words)
    THEN <<>>
    ELSE LET wordData == words[wordIndex + 1]
             before == IF wordData.start_pos > lastIndex
                       THEN << TextNode(Slice(text, lastIndex, wordData.start_pos)) >>
                       ELSE <<>>
         IN  before \o << SpanNode(wordData.word, <<pageIndex, wordIndex>>) >>
                    \o wordNodesDropsRest(pageIndex, text, words, wordIndex + 1,
                                          wordData.end_pos)

\* the forEach of createWordElements from word wordIndex on: the child nodes appended
RECURSIVE wordNodes(_, _, _, _, _)
wordNodes(pageIndex, text, words, wordIndex, lastIndex) ==
    IF wordIndex >= Len(words)
    THEN IF lastIndex < Len(text)
         THEN << TextNode(Slice(text, lastIndex, Len(text))) >>
         ELSE <<>>
    ELSE LET wordData == words[wordIndex + 1]
             before == IF wordData.start_pos > lastIndex
                       THEN << TextNode(Slice(text, lastIndex, wordData.start_pos)) >>
                       ELSE <<>>
         IN  before \o << SpanNode(wordData.word, <<pageIndex, wordIndex>>) >>
                    \o wordNodes(pageIndex, text, words, wordIndex + 1, wordData.end_pos)

\* the children of the page-text container of a page
createWordElements(pageIndex, text, words) == wordNodes(pageIndex, text, words, 0, 0)

\* the block renderPDF appends for page pageIndex
PageBlock(s, pageIndex) ==
    LET page == Docs[s.currentPDF].pages[pageIndex + 1]
        className == IF s.isImageView THEN "image-view" ELSE "text-view"
    IN  IF s.isImageView /\ page.image
        THEN [className |-> className, kind |-> "img", nodes |-> <<>>]
        ELSE IF s.isImageView /\ ~page.image
        THEN [className |-> className, kind |-> "message", nodes |-> <<>>]
        ELSE LET textToUse == IF s.skipHeaderFooter
                              THEN page.processed_text
                              ELSE page.original_text
                 wordsToUse == WordsOfPage(s, pageIndex)
             IN  [className |-> className, kind |-> "page-text",
                  nodes |-> createWordElements(pageIndex, textToUse, wordsToUse)]

\* the keys under which createWordElements registers the spans of the blocks
SpanKeys(blocks) ==
    UNION { {blocks[i].nodes[j].key :
                j \in {n \in 1..Len(blocks[i].nodes) : blocks[i].nodes[n].type = "span"}} :
            i \in 1..Len(blocks) }

\* renderPDF that does not clear the Word Index before it fills it
renderPDFKeepsEntries(s) ==
    IF s.currentPDF = 0
    THEN s
    ELSE LET doc == Docs[s.currentPDF]
             blocks == [i \in 1..Len(doc.pages) |-> PageBlock(s, i - 1)]
         IN  [s EXCEPT !.wordElements =
                           [k \in SpanKeys(blocks) \cup DOMAIN s.wordElements |-> {}],
                       !.pdfPages = [info |-> doc.header_patterns > 0
                                                \/ doc.footer_patterns > 0,
                                     skipInfo |-> s.skipHeaderFooter,
                                     pages |-> blocks]]

renderPDF(s) ==
    IF s.currentPDF = 0
    THEN s
    ELSE LET doc == Docs[s.currentPDF]
             blocks == [i \in 1..Len(doc.pages) |-> PageBlock(s, i - 1)]
         IN  [s EXCEPT !.wordElements = [k \in SpanKeys(blocks) |-> {}],
                       !.pdfPages = [info |-> doc.header_patterns > 0
                                                \/ doc.footer_patterns > 0,
                                     skipInfo |-> s.skipHeaderFooter,
                                     pages |-> blocks]]

\* click on the button addImageClickHandler puts on a page image; the notice it
\* inserts above the pages is static text and is not part of the state
switchButtonClick(s) == renderPDF([s EXCEPT !.isImageView = FALSE])

\* toggleView without the test for a loaded document
toggleViewUnguarded(s) ==
    LET s1 == [s EXCEPT !.isImageView = ~@]
        s2 == [s1 EXCEPT !.textContent.toggleViewBtn =
                   IF s1.isImageView THEN "Switch to Text View"
                                     ELSE "Switch to Image View"]
    IN  renderPDF(s2)

toggleView(s) ==
    IF s.currentPDF = 0
    THEN s
    ELSE LET s1 == [s EXCEPT !.isImageView = ~@]
             s2 == [s1 EXCEPT !.textContent.toggleViewBtn =
                        IF s1.isImageView THEN "Switch to Text View"
                                          ELSE "Switch to Image View"]
         IN  renderPDF(s2)

\* extractWordsFromText(page.original_text) of every page of every document
OriginalWords ==
    [d \in DocIds |->
        [i \in 1..Len(Docs[d].pages) |->
            extractWordsFromText(Docs[d].pages[i].original_text)]]

updateCurrentWordsData(s) ==
    IF s.currentPDF = 0
    THEN s
    ELSE LET pages == Docs[s.currentPDF].pages
         IN  [s EXCEPT !.currentWordsData =
                 [i \in 1..Len(pages) |->
                     IF s.skipHeaderFooter
                     THEN pages[i].words
                     ELSE OriginalWords[s.currentPDF][i]]]

\* handleSkipHeaderFooterChange that moves the cursor to the first word of its page
handleSkipHeaderFooterChangeRewindsWord(s, checked) ==
    LET s1 == [s EXCEPT !.skipHeaderFooter = checked, !.currentWordIndex = 0]
    IN  IF s1.currentPDF # 0
        THEN renderPDF(updateCurrentWordsData(s1))
        ELSE s1

handleSkipHeaderFooterChange(s, checked) ==
    LET s1 == [s EXCEPT !.skipHeaderFooter = checked]
    IN  IF s1.currentPDF # 0
        THEN renderPDF(updateCurrentWordsData(s1))
        ELSE s1

(***************************************************************************)
(* Upload controller.  handleUpload runs up to the await; the rest of it   *)
(* runs when the request settles.                                          *)
(***************************************************************************)
getHeaderFooterInfo(s) ==
    IF s.currentPDF = 0
    THEN <<>>
    ELSE LET doc == Docs[s.currentPDF]
         IN  IF doc.header_patterns + doc.footer_patterns > 0
             THEN <<"Detected", doc.header_patterns, doc.footer_patterns>>
             ELSE <<"No repeating headers/footers detected.">>

handleUpload(s, file) ==
    IF ~file
    THEN updateStatus(s, <<"Please select a PDF file">>)
    ELSE [updateStatus(s, <<"Uploading and processing PDF...">>)
             EXCEPT !.uploads = @ + 1]

\* uploadResolved that keeps the word lists computed for the document before
uploadResolvedKeepsWordLists(s, data) ==
    LET s1 == [s EXCEPT !.uploads = @ - 1, !.currentPDF = data]
        s2 == renderPDF(s1)
        s3 == [enableControls(s2) EXCEPT !.keyboardListenerActive = TRUE]
    IN  updateStatus(s3, <<"PDF loaded successfully.", getHeaderFooterInfo(s3)>>)

\* the request of handleUpload resolved with document data
uploadResolved(s, data) ==
    LET s1 == [s EXCEPT !.uploads = @ - 1, !.currentPDF = data]
        s2 == renderPDF(updateCurrentWordsData(s1))
        s3 == [enableControls(s2) EXCEPT !.keyboardListenerActive = TRUE]
    IN  updateStatus(s3, <<"PDF loaded successfully.", getHeaderFooterInfo(s3)>>)

\* uploadRejected that also drops the document loaded before
uploadRejectedDropsDocument(s) ==
    updateStatus([s EXCEPT !.uploads = @ - 1, !.currentPDF = 0,
                           !.currentWordsData = <<>>],
                 <<"Error uploading PDF. Please try again.">>)

\* the request of handleUpload was rejected
uploadRejected(s) ==
    updateStatus([s EXCEPT !.uploads = @ - 1],
                 <<"Error uploading PDF. Please try again.">>)

(***************************************************************************)
(* The state after construction.  The markup of the page, which sets the   *)
(* initial disabled state of the controls, is not part of the class: every *)
(* combination is an initial state.                                        *)
(***************************************************************************)
Controls == {"playBtn", "pauseBtn", "stopBtn", "speedRange", "toggleViewBtn",
             "skipHeaderFooter"}

Constructed(dis) ==
    [currentPDF |-> 0, isPlaying |-> FALSE, isPaused |-> FALSE,
     currentPageIndex |-> 0, currentWordIndex |-> 0, speechRate |-> 1,
     wordElements |-> <<>>, keyboardListenerActive |-> TRUE,
     isImageView |-> TRUE, skipHeaderFooter |-> TRUE,
     currentWordsData |-> <<>>,
     synth |-> [queue |-> <<>>, paused |-> FALSE],
     timers |-> 0, stale |-> <<>>, uploads |-> 0,
     disabled |-> dis,
     textContent |-> [playBtn |-> "", toggleViewBtn |-> ""],
     statusText |-> <<>>,
     pdfPages |-> [info |-> FALSE, skipInfo |-> TRUE, pages |-> <<>>],
     observe |-> FALSE, dispatched |-> <<>>]

IsState(t) ==
    /\ currentPDF = t.currentPDF
    /\ isPlaying = t.isPlaying
    /\ isPaused = t.isPaused
    /\ currentPageIndex = t.currentPageIndex
    /\ currentWordIndex = t.currentWordIndex
    /\ speechRate = t.speechRate
    /\ wordElements = t.wordElements
    /\ keyboardListenerActive = t.keyboardListenerActive
    /\ isImageView = t.isImageView
    /\ skipHeaderFooter = t.skipHeaderFooter
    /\ currentWordsData = t.currentWordsData
    /\ synth = t.synth
    /\ timers = t.timers
    /\ stale = t.stale
    /\ uploads = t.uploads
    /\ disabled = t.disabled
    /\ textContent = t.textContent
    /\ statusText = t.statusText
    /\ pdfPages = t.pdfPages
    /\ observe = t.observe
    /\ dispatched = t.dispatched

\* no text has been given to the tokenizer on its own
NoText == inputText = <<>> /\ container = <<>>

Init == NoText /\ \E dis \in [Controls -> BOOLEAN] : IsState(Constructed(dis))

(***************************************************************************)
(* Actions: one per event the event loop can run.                          *)
(***************************************************************************)
Do(t) == WithinBounds(t) /\ Becomes(t)

\* click on uploadBtn, with or without a file selected
Upload ==
    \E file \in BOOLEAN :
        LET t == handleUpload(St, file) IN WithinBounds(t) /\ Becomes(t)

UploadResolved == uploads > 0 /\ \E d \in UploadDocs : Do(uploadResolved(St, d))

UploadRejected == uploads > 0 /\ Do(uploadRejected(St))

\* the same three, in a session that loads one document with one request at a
\* time
FirstUpload == currentPDF = 0 /\ uploads = 0 /\ Upload

FirstUploadResolved == currentPDF = 0 /\ UploadResolved

FirstUploadRejected == currentPDF = 0 /\ UploadRejected

Play == ~disabled.playBtn /\ Do(handlePlay(St))

Pause == ~disabled.pauseBtn /\ Do(handlePause(St))

Stop == ~disabled.stopBtn /\ Do(handleStop(St))

SetRate == ~disabled.speedRange /\ \E r \in Rates : Do(handleSpeedChange(St, r))

SetWordSource ==
    ~disabled.skipHeaderFooter /\ \E b \in BOOLEAN : Do(handleSkipHeaderFooterChange(St, b))

\* click on toggleViewBtn
ToggleView == ~disabled.toggleViewBtn /\ Do(toggleView(St))

\* keydown KeyV outside a form field
KeyV == LET t == toggleView(St) IN WithinBounds(t) /\ Becomes(t)

\* keydown Space outside a form field
KeySpace == LET t == togglePlayPause(St) IN WithinBounds(t) /\ Becomes(t)

\* click or Enter/Space on the rendered word with key k
SeekTo(k) == k \in DOMAIN wordElements /\ Do(jumpToWordAndPlay(St, k[1], k[2]))

Seek == \E k \in DOMAIN wordElements : SeekTo(k)

\* click on the button over a page image
SwitchToText ==
    /\ \E i \in 1..Len(pdfPages.pages) : pdfPages.pages[i].kind = "img"
    /\ Do(switchButtonClick(St))

\* the head of the queue begins to be spoken
SpeechStart ==
    /\ Len(synth.queue) > 0
    /\ ~synth.queue[1].started
    /\ ~synth.paused
    /\ Do(onstart([St EXCEPT !.synth.queue[1].started = TRUE], synth.queue[1]))

\* the utterance being spoken completes
SpeechEnd ==
    /\ speaking(St)
    /\ ~synth.paused
    /\ Do(onend([St EXCEPT !.synth.queue = Tail(@)]))

\* the capability fails on the head of the queue
SpeechError ==
    /\ Len(synth.queue) > 0
    /\ Do(onerror([St EXCEPT !.synth.queue = Tail(@)]))

\* the end event of a cancelled utterance is delivered
StaleEnd ==
    /\ Len(stale) > 0
    /\ stale[1].started
    /\ Do(onend([St EXCEPT !.stale = Tail(@)]))

\* the error event of a cancelled utterance is delivered
StaleError == Len(stale) > 0 /\ Do(onerror([St EXCEPT !.stale = Tail(@)]))

\* a timer continuation runs
Timer == timers > 0 /\ Do(startReading([St EXCEPT !.timers = @ - 1]))

Next ==
    \/ FirstUpload \/ FirstUploadResolved \/ FirstUploadRejected
    \/ Play \/ Pause \/ Stop \/ SetRate \/ SetWordSource
    \/ ToggleView \/ KeyV \/ KeySpace \/ Seek \/ SwitchToText
    \/ SpeechStart \/ SpeechEnd \/ SpeechError
    \/ StaleEnd \/ StaleError \/ Timer

Spec == Init /\ [][Next]_vars

(***************************************************************************)
(* Uninterrupted reading: a document has been loaded (with either word     *)
(* source, in either view, at either rate), the cursor is (0,0), and from  *)
(* then on there is no Stop, Seek, rate change, source change or speech    *)
(* error; Play, Pause and the view controls remain.  speak() calls are     *)
(* recorded.                                                               *)
(***************************************************************************)
Loaded(d, skip, textView, rate) ==
    LET s0 == Constructed([c \in Controls |-> TRUE])
        s1 == handleSkipHeaderFooterChange(s0, skip)
        s2 == handleSpeedChange(s1, rate)
        s3 == uploadResolved(handleUpload(s2, TRUE), d)
    IN  IF textView THEN toggleView(s3) ELSE s3

InitRead ==
    /\ NoText
    /\ \E d \in DocIds, skip \in BOOLEAN, textView \in BOOLEAN, rate \in Rates :
          IsState([Loaded(d, skip, textView, rate) EXCEPT !.observe = TRUE])

NextRead ==
    \/ Play \/ Pause \/ KeySpace \/ ToggleView \/ SwitchToText
    \/ SpeechStart \/ SpeechEnd \/ Timer

SpecRead == InitRead /\ [][NextRead]_vars

(***************************************************************************)
(* A session in which documents are uploaded again and again and the word  *)
(* source is switched while the engine runs; speech does not fail, the     *)
(* rate stays as it is and the events of cancelled utterances are not      *)
(* delivered.                                                              *)
(***************************************************************************)
NextSession ==
    \/ Upload \/ UploadResolved \/ UploadRejected
    \/ Play \/ Pause \/ Stop \/ SetWordSource
    \/ ToggleView \/ KeySpace \/ Seek \/ SwitchToText
    \/ SpeechStart \/ SpeechEnd \/ Timer

SpecSession == Init /\ [][NextSession]_vars

(***************************************************************************)
(* A reading left to itself: a document has been loaded as in InitRead and *)
(* the only user command is Play.  The speech capability starts and ends   *)
(* every utterance it is given and the browser runs every timer it was     *)
(* asked to run: the three are weakly fair.  Speech does not fail.         *)
(***************************************************************************)
NextRun == Play \/ SpeechStart \/ SpeechEnd \/ Timer

SpecRun ==
    /\ InitRead
    /\ [][NextRun]_vars
    /\ WF_vars(SpeechStart)
    /\ WF_vars(SpeechEnd)
    /\ WF_vars(Timer)

(***************************************************************************)
(* The tokenizer and the renderer of a text block on their own: any text   *)
(* of up to MaxLen characters, over two word characters and two others, is *)
(* tokenized and the words are rendered into the container of a page, as   *)
(* renderPDF does for the original text of a page.                         *)
(***************************************************************************)
Alphabet == {"a", "_", " ", "."}

Texts == UNION {[1..n -> Alphabet] : n \in 0..MaxLen}

InitTokens ==
    /\ IsState(Constructed([c \in Controls |-> TRUE]))
    /\ inputText \in Texts
    /\ container = <<>>

RenderText ==
    /\ container = <<>>
    /\ container' = createWordElements(0, inputText, extractWordsFromText(inputText))
    /\ UNCHANGED << currentPDF, isPlaying, isPaused, currentPageIndex,
                    currentWordIndex, speechRate, wordElements,
                    keyboardListenerActive, isImageView, skipHeaderFooter,
                    currentWordsData, synth, timers, stale, uploads, disabled,
                    textContent, statusText, pdfPages, observe, dispatched,
                    inputText >>

NextTokens == RenderText

SpecTokens == InitTokens /\ [][NextTokens]_vars

(***************************************************************************)
(* Vocabulary of the properties.                                           *)
(***************************************************************************)
Cursor == <<currentPageIndex, currentWordIndex>>

Playing == isPlaying /\ ~isPaused
Paused == isPlaying /\ isPaused
Idle == ~isPlaying /\ ~isPaused

StatusKind == IF statusText = <<>> THEN "" ELSE statusText[1]

Finished == Idle /\ StatusKind = "Finished reading the document."

Marks == UNION {wordElements[k] : k \in DOMAIN wordElements}

\* the word list in effect for page p (1-based) of the loaded document,
\* from the document and the skip flag
EffectivePage(p) ==
    IF skipHeaderFooter
    THEN Docs[currentPDF].pages[p].words
    ELSE OriginalWords[currentPDF][p]

RECURSIVE WordsFrom(_)
\* the effective words of pages p.. in reading order, with their positions
WordsFrom(p) ==
    IF p > Len(Docs[currentPDF].pages)
    THEN <<>>
    ELSE [w \in 1..Len(EffectivePage(p)) |->
             [at |-> <<p - 1, w - 1>>, text |-> EffectivePage(p)[w].word]]
         \o WordsFrom(p + 1)

EffectiveWords == IF currentPDF = 0 THEN <<>> ELSE WordsFrom(1)

IsPrefix(a, b) == Len(a) <= Len(b) /\ a = SubSeq(b, 1, Len(a))

(***************************************************************************)
(* C1: in an uninterrupted reading from (0,0) the utterances dispatched    *)
(* are the effective words of the pages in page-then-word order, each      *)
(* once: what has been dispatched so far is always an initial part of that *)
(* list, and when the engine reports Finished it is the whole list and no  *)
(* utterance is left in the capability.                                    *)
(***************************************************************************)
ReadsEveryWordInOrder ==
    /\ IsPrefix(dispatched, EffectiveWords)
    /\ StatusKind = "Finished reading the document."
         => dispatched = EffectiveWords /\ synth.queue = <<>> /\ Idle

\* the scenario: The, cat, sat, on, mat, then Finished
ReadsEveryWordInOrderWitness ==
    /\ StatusKind = "Finished reading the document."
    /\ [i \in 1..Len(dispatched) |-> dispatched[i].text] = <<The, cat, sat, on, mat>>

(***************************************************************************)
(* C2: the end event of an utterance that Stop (or the Stop inside Seek)   *)
(* cancelled changes neither the cursor nor any highlight mark, whenever   *)
(* it is delivered.                                                        *)
(***************************************************************************)
StaleFrom(by) == stale # <<>> /\ stale[1].by = by /\ stale' = Tail(stale)

StaleStopEventIsIgnored ==
    [][StaleFrom("Stop") => Cursor' = Cursor /\ wordElements' = wordElements]_vars

(***************************************************************************)
(* C3: at most one utterance is outstanding in the speech capability.      *)
(***************************************************************************)
AtMostOneOutstanding == Len(synth.queue) <= 1

(***************************************************************************)
(* C4: a rate change while Playing cancels the utterance in flight and     *)
(* schedules one restart at the same cursor; neither the change nor the    *)
(* end event of the utterance it cancelled moves the cursor or schedules   *)
(* another dispatch.                                                       *)
(***************************************************************************)
SetRateRespeaksCurrentWord ==
    [][ /\ (Playing /\ SetRate)
            => synth.queue' = <<>> /\ timers' = timers + 1 /\ Cursor' = Cursor
        /\ StaleFrom("SetRate") => Cursor' = Cursor /\ timers' = timers ]_vars

(***************************************************************************)
(* C5: when Seek(p, w) returns, the cursor is (p, w) and the engine is     *)
(* Playing, whatever the state before.                                     *)
(***************************************************************************)
SeekSetsCursorAndPlays ==
    [][\A k \in DOMAIN wordElements :
          SeekTo(k) => Cursor' = k /\ isPlaying' /\ ~isPaused']_vars

\* a Seek to (1,0) issued while the engine was Paused has returned
SeekSetsCursorAndPlaysWitness ==
    /\ StatusKind = "Started reading from page"
    /\ synth.paused
    /\ Playing
    /\ Cursor = <<1, 0>>

(***************************************************************************)
(* C6: in an uninterrupted reading, while the engine is Paused the         *)
(* capability holds the one utterance of the word at the cursor, the last  *)
(* one dispatched; leaving Paused keeps that utterance, dispatches nothing *)
(* and keeps the cursor; and every dispatch is of the effective word that  *)
(* follows the word dispatched before it.                                  *)
(***************************************************************************)
PauseThenPlayResumesSameWord ==
    /\ [](isPaused =>
            /\ Len(synth.queue) = 1
            /\ synth.queue[1].started
            /\ synth.queue[1].at = Cursor
            /\ dispatched # <<>>
            /\ dispatched[Len(dispatched)].at = Cursor)
    /\ [][(isPaused /\ ~isPaused') =>
            /\ synth.queue' = synth.queue
            /\ dispatched' = dispatched
            /\ Cursor' = Cursor
            /\ isPlaying'
            /\ ~synth.paused']_vars
    /\ [][dispatched' # dispatched =>
            dispatched' = SubSeq(EffectiveWords, 1, Len(dispatched) + 1)]_vars

\* Play has resumed the second word of a page, which is still being spoken
PauseThenPlayResumesSameWordWitness ==
    /\ StatusKind = "Reading paused - Press Spacebar or click Resume to continue"
    /\ Playing
    /\ ~synth.paused
    /\ Len(synth.queue) = 1
    /\ synth.queue[1].started
    /\ synth.queue[1].at = <<0, 1>>

(***************************************************************************)
(* C7: Stop leaves the cursor where it is, and a Play that follows it      *)
(* dispatches the effective word at that cursor (the first effective word  *)
(* at or after it), or finishes when there is none.                        *)
(***************************************************************************)
\* the effective words at or after position c, in reading order
WordsAtOrAfter(c) ==
    LET AtOrAfter(e) == e.at[1] > c[1] \/ (e.at[1] = c[1] /\ e.at[2] >= c[2])
    IN  SelectSeq(EffectiveWords, AtOrAfter)

\* what a run of AdvanceAndSpeak at the cursor leaves behind
AdvancedAndSpoke ==
    LET rest == WordsAtOrAfter(Cursor)
    IN  IF rest # <<>>
        THEN /\ synth.queue' = Append(synth.queue,
                                      [text |-> rest[1].text,
                                       rate |-> Min(speechRate, 10),
                                       at |-> rest[1].at,
                                       started |-> FALSE])
             /\ Cursor' = rest[1].at
             /\ isPlaying' /\ ~isPaused'
        ELSE /\ synth.queue' = <<>>
             /\ ~isPlaying' /\ ~isPaused'
             /\ statusText' = <<"Finished reading the document.">>

StopKeepsCursor ==
    [][ /\ Stop => Cursor' = Cursor
        /\ (StatusKind = "Reading stopped" /\ Idle /\ currentPDF # 0 /\ Play)
            => AdvancedAndSpoke ]_vars

\* stopped in the middle of a document, and Play has dispatched the word there
StopKeepsCursorWitness ==
    /\ StatusKind = "Reading stopped"
    /\ Playing
    /\ Cursor # <<0, 0>>
    /\ Len(synth.queue) = 1
    /\ synth.queue[1].at = Cursor

(***************************************************************************)
(* C8: when Stop returns no utterance is outstanding, no word carries a    *)
(* highlight mark and the engine is Idle.                                  *)
(***************************************************************************)
StopLeavesIdle ==
    [][Stop => synth.queue' = <<>> /\ Marks' = {} /\ ~isPlaying' /\ ~isPaused']_vars

\* stopped in text view after at least one word had been marked spoken
StopLeavesIdleWitness ==
    /\ StatusKind = "Reading stopped"
    /\ Idle
    /\ DOMAIN wordElements # {}
    /\ Marks = {}
    /\ synth.queue = <<>>
    /\ currentWordIndex > 0

(***************************************************************************)
(* C9: Play while Paused resumes the outstanding utterance, creates none   *)
(* and leaves the engine Playing at the same cursor; Play while Idle or    *)
(* Finished makes the engine Playing and runs AdvanceAndSpeak at the       *)
(* cursor.                                                                 *)
(***************************************************************************)
PlayResumesOrStarts ==
    [][ /\ (Paused /\ Play)
            => /\ synth.queue' = synth.queue
               /\ ~synth.paused'
               /\ Cursor' = Cursor
               /\ isPlaying' /\ ~isPaused'
        /\ (Idle /\ currentPDF # 0 /\ Play) => AdvancedAndSpoke ]_vars

\* Play on a freshly loaded document whose first page has no effective word
PlayResumesOrStartsWitness ==
    /\ StatusKind = "PDF loaded successfully."
    /\ Playing
    /\ Len(synth.queue) = 1
    /\ synth.queue[1].at = <<1, 0>>

(***************************************************************************)
(* C10: Pause acts only when an utterance is being spoken and the          *)
(* capability is not paused: then the capability is suspended and the      *)
(* engine is Paused; otherwise the flags, the cursor and the capability    *)
(* are left as they were.                                                  *)
(***************************************************************************)
PauseOnlyWhileSpeaking ==
    [][Pause =>
        IF speaking(St) /\ ~synth.paused
        THEN /\ synth' = [synth EXCEPT !.paused = TRUE]
             /\ isPlaying' /\ isPaused'
             /\ Cursor' = Cursor
        ELSE UNCHANGED <<isPlaying, isPaused, currentPageIndex,
                         currentWordIndex, synth>>]_vars

(***************************************************************************)
(* C11: an error of the current utterance is reported on the status        *)
(* channel and neither moves the cursor nor dispatches or schedules        *)
(* anything; and from then on the engine stays stalled (still Playing,     *)
(* nothing outstanding, nothing scheduled, cursor where it was) until the  *)
(* user stops it (Stop, or the Stop inside Seek).                          *)
(***************************************************************************)
Stalled ==
    /\ Playing
    /\ synth.queue = <<>>
    /\ timers = 0
    /\ StatusKind = "Error during speech synthesis"

ErrorStallsPlayback ==
    [][ /\ SpeechError
            => /\ statusText' = <<"Error during speech synthesis">>
               /\ Cursor' = Cursor
               /\ synth.queue' = Tail(synth.queue)
               /\ timers' = timers
        /\ (Stalled /\ ~Stop /\ ~Seek)
            => synth.queue' = <<>> /\ timers' = 0 /\ Cursor' = Cursor ]_vars

(***************************************************************************)
(* C12: while the engine is Idle or Paused the page index of the cursor    *)
(* lies between 0 and the page count of the loaded document, whatever      *)
(* uploads, seeks, toggles and playback events came before; and the page   *)
(* index comes to equal the page count only by the document being read to  *)
(* its end.                                                                *)
(***************************************************************************)
CursorWithinDocument ==
    /\ []((Idle \/ Paused) => currentPageIndex \in 0..PageCount(St))
    /\ [][ ( /\ currentPDF' # 0
             /\ currentPageIndex' = Len(Docs[currentPDF'].pages)
             /\ <<currentPDF, currentPageIndex>>' # <<currentPDF, currentPageIndex>> )
           => StatusKind' = "Finished reading the document." ]_vars

(***************************************************************************)
(* C13: a run of AdvanceAndSpeak that finds the page index at or beyond    *)
(* the page count (at once, or after rolling over the pages without an     *)
(* effective word that remain) leaves no utterance in the capability, the  *)
(* engine neither playing nor paused, no highlight mark on any word, and   *)
(* "Finished reading the document." as the status.                         *)
(***************************************************************************)
\* the step runs AdvanceAndSpeak from Play, the keyboard toggle or a timer
RunsAdvanceAndSpeak ==
    \/ Timer
    \/ Play /\ ~isPaused
    \/ KeySpace /\ ~isPlaying /\ ~isPaused /\ ~disabled.playBtn

FinishesAtEnd ==
    [][ (currentPDF # 0 /\ WordsAtOrAfter(Cursor) = <<>> /\ RunsAdvanceAndSpeak)
        => /\ synth.queue' = <<>>
           /\ ~isPlaying' /\ ~isPaused'
           /\ Marks' = {}
           /\ currentPageIndex' >= Len(Docs[currentPDF].pages)
           /\ statusText' = <<"Finished reading the document.">> ]_vars

\* the last word of a document shown as text has been spoken and the timer has run
FinishesAtEndWitness ==
    /\ StatusKind = "Finished reading the document."
    /\ Idle
    /\ currentPDF = 2
    /\ ~isImageView
    /\ DOMAIN wordElements # {}
    /\ Marks = {}
    /\ synth.queue = <<>>
    /\ timers = 0

(***************************************************************************)
(* C14: Play in Finished does what Play does in Idle with the same cursor: *)
(* the state it leaves is the one Play leaves from the same state with the *)
(* status of a stopped engine (the status line apart), which is a run of   *)
(* AdvanceAndSpeak at the cursor; and while the engine is Finished only a  *)
(* Seek moves the cursor.                                                  *)
(***************************************************************************)
\* the state as it would be had the engine been stopped rather than finished
StoppedTwin == [St EXCEPT !.statusText = <<"Reading stopped">>]

FinishedPlayIsIdlePlay ==
    [][ /\ (Finished /\ currentPDF # 0 /\ Play)
            => /\ AdvancedAndSpoke
               /\ St' = [handlePlay(StoppedTwin) EXCEPT !.statusText = statusText']
        /\ (Finished /\ Cursor' # Cursor) => Seek ]_vars

\* a finished document whose word source was switched afterwards; Play is enabled
\* and leaves this state as it is
FinishedPlayIsIdlePlayWitness ==
    /\ Finished
    /\ currentPDF = 2
    /\ ~disabled.playBtn
    /\ Cursor = <<2, 0>>
    /\ ~skipHeaderFooter
    /\ textContent.playBtn = "Play"

(***************************************************************************)
(* C15: a change of the header/footer-skip flag while a document is        *)
(* loaded leaves the cursor and the playback flags as they are, in every   *)
(* playback state, and makes the effective word list of every page the     *)
(* processed list (skip on) or the tokenization of the original text (skip *)
(* off), whatever the lengths of the two lists.                            *)
(***************************************************************************)
SkipToggleKeepsCursor ==
    [][ (currentPDF # 0 /\ SetWordSource)
        => /\ Cursor' = Cursor
           /\ isPlaying' = isPlaying /\ isPaused' = isPaused
           /\ currentWordsData' =
                [i \in 1..Len(Docs[currentPDF].pages) |->
                    IF skipHeaderFooter'
                    THEN Docs[currentPDF].pages[i].words
                    ELSE extractWordsFromText(Docs[currentPDF].pages[i].original_text)]
      ]_vars

\* skip was switched off while "on", dispatched as word (0,0), is outstanding:
\* the cursor is still (0,0), where the word list now has the header word
SkipToggleKeepsCursorWitness ==
    /\ Playing
    /\ ~skipHeaderFooter
    /\ ~pdfPages.skipInfo
    /\ Cursor = <<0, 0>>
    /\ Len(synth.queue) = 1
    /\ synth.queue[1].text = on
    /\ synth.queue[1].at = <<0, 0>>
    /\ currentWordsData[1][1].word = <<"H">>
    /\ Len(currentWordsData[1]) = 2

(***************************************************************************)
(* C16: an upload that fails, and a click on upload with no file selected, *)
(* change the status message and nothing else: the loaded document, the    *)
(* effective word lists, the Word Index with its marks, the rendered       *)
(* pages, the cursor, the playback flags and the speech capability stay as *)
(* they were.                                                              *)
(***************************************************************************)
FailedUploadChangesStatusOnly ==
    [][ /\ UploadRejected
            => /\ statusText' = <<"Error uploading PDF. Please try again.">>
               /\ UNCHANGED <<currentPDF, currentWordsData, wordElements, pdfPages,
                              currentPageIndex, currentWordIndex, isPlaying,
                              isPaused, synth, timers, skipHeaderFooter,
                              isImageView, speechRate, disabled, textContent>>
        /\ (Upload /\ uploads' = uploads)
            => /\ statusText' = <<"Please select a PDF file">>
               /\ UNCHANGED <<currentPDF, currentWordsData, wordElements, pdfPages,
                              currentPageIndex, currentWordIndex, isPlaying,
                              isPaused, synth, timers, skipHeaderFooter,
                              isImageView, speechRate, disabled, textContent>>
      ]_vars

\* a second upload failed while a word of the loaded document was being spoken
FailedUploadChangesStatusOnlyWitness ==
    /\ StatusKind = "Error uploading PDF. Please try again."
    /\ currentPDF # 0
    /\ Playing
    /\ Len(synth.queue) = 1
    /\ synth.queue[1].started

(***************************************************************************)
(* C17: the text nodes and word elements that the renderer builds from the *)
(* tokenizer's offsets, read in order, spell the text that was tokenized,  *)
(* for every text.                                                         *)
(***************************************************************************)
\* the characters of a sequence of nodes, in document order
RECURSIVE TextOf(_)
TextOf(nodes) ==
    IF nodes = <<>> THEN <<>> ELSE nodes[1].data \o TextOf(Tail(nodes))

TokenizeRenderRoundTrip == [][RenderText => TextOf(container') = inputText]_vars

\* ".a a": punctuation, a word, a blank, a word at the end of the text
TokenizeRenderRoundTripWitness ==
    /\ inputText = <<".", "a", " ", "a">>
    /\ container = << TextNode(<<".">>), SpanNode(<<"a">>, <<0, 0>>),
                      TextNode(<<" ">>), SpanNode(<<"a">>, <<0, 1>>) >>

(***************************************************************************)
(* C18: after every render pass (new document, view toggle, skip toggle,   *)
(* the button on a page image) the Word Index has one entry for each       *)
(* (page_index, word_index) with word_index below the length of the        *)
(* effective word list of that page, and no other entry.                   *)
(***************************************************************************)
\* the positions of the effective words of the loaded document
WordPositions ==
    IF currentPDF = 0
    THEN {}
    ELSE UNION { {<<p - 1, w - 1>> : w \in 1..Len(EffectivePage(p))} :
                 p \in 1..Len(Docs[currentPDF].pages) }

\* the step is a render pass
RenderPass ==
    /\ currentPDF' # 0
    /\ UploadResolved \/ ToggleView \/ KeyV \/ SetWordSource \/ SwitchToText

WordIndexIsRebuilt ==
    [][RenderPass => DOMAIN wordElements' = WordPositions']_vars

(***************************************************************************)
(* C18 as amended: after every render pass in text view the Word Index has *)
(* one entry for each position of an effective word and no other entry;    *)
(* after a render pass in image view, where no page is rendered as words,  *)
(* it is empty.  (Stated from the result: a step that leaves any other     *)
(* index is not a render pass.)                                            *)
(***************************************************************************)
WordIndexIsRebuiltInTextView ==
    [][ DOMAIN wordElements' # (IF isImageView' THEN {} ELSE WordPositions')
        => ~RenderPass ]_vars

\* skip was switched off in text view: page 1 of document 2 has one processed
\* word and two words in its original text, and the index has two entries for it
WordIndexIsRebuiltInTextViewWitness ==
    /\ currentPDF = 2
    /\ ~isImageView
    /\ ~skipHeaderFooter
    /\ ~pdfPages.skipInfo
    /\ DOMAIN wordElements = {<<0, 0>>, <<0, 1>>, <<1, 0>>}
    /\ Idle

(***************************************************************************)
(* C19: the button on a page image shows every page as interactive text    *)
(* and leaves the stored view-mode flag, which the view toggle and later   *)
(* renders read, as it was.                                                *)
(***************************************************************************)
OverlayKeepsViewPreference ==
    [][SwitchToText =>
        /\ \A i \in 1..Len(pdfPages'.pages) : pdfPages'.pages[i].kind = "page-text"
        /\ isImageView' = isImageView ]_vars

(***************************************************************************)
(* C20: with no document loaded, Play, Seek (to any position), the         *)
(* play/pause keyboard toggle and the view toggle leave the state as it    *)
(* is: the playback flags, the cursor, the view mode and the speech        *)
(* capability with its queue, and everything else.                         *)
(***************************************************************************)
NoDocumentNoOps ==
    currentPDF = 0 =>
        /\ handlePlay(St) = St
        /\ togglePlayPause(St) = St
        /\ toggleView(St) = St
        /\ \A pageIndex \in 0..2, wordIndex \in 0..2 :
               jumpToWordAndPlay(St, pageIndex, wordIndex) = St

\* still no document after a failed upload, with the controls enabled and the
\* rate changed: Play and the toggles can be issued and leave this state
NoDocumentNoOpsWitness ==
    /\ currentPDF = 0
    /\ StatusKind = "Error uploading PDF. Please try again."
    /\ ~disabled.playBtn
    /\ ~disabled.toggleViewBtn
    /\ keyboardListenerActive
    /\ speechRate = 12

(***************************************************************************)
(* C21: every rendered word carries at most one of the three highlight     *)
(* marks clicked-start, current-word and spoken-word.                      *)
(***************************************************************************)
MarksAreExclusive ==
    \A k \in DOMAIN wordElements :
        Cardinality(wordElements[k] \cap HighlightClasses) <= 1

\* a word is being spoken while the word before it carries the spoken mark
MarksAreExclusiveWitness ==
    /\ <<0, 0>> \in DOMAIN wordElements
    /\ <<0, 1>> \in DOMAIN wordElements
    /\ wordElements[<<0, 0>>] = {"spoken-word"}
    /\ wordElements[<<0, 1>>] = {"current-word"}

(***************************************************************************)
(* C22: only Seek moves the cursor backward in (page_index, word_index)    *)
(* order: no step of Play, Pause, Stop, a rate change, a view toggle, a    *)
(* skip toggle, an upload, a speech callback or a timer continuation does, *)
(* and neither does the arrival of a new document in any state.            *)
(***************************************************************************)
\* position a comes before position b
Before(a, b) == a[1] < b[1] \/ (a[1] = b[1] /\ a[2] < b[2])

CursorOf(s) == <<s.currentPageIndex, s.currentWordIndex>>

CursorNeverMovesBack ==
    /\ [][Before(Cursor', Cursor) => Seek]_vars
    /\ [](\A d \in DocIds :
            /\ CursorOf(uploadResolved(St, d)) = Cursor
            /\ CursorOf(uploadRejected(St)) = Cursor
            /\ \A file \in BOOLEAN : CursorOf(handleUpload(St, file)) = Cursor)

\* stopped on the second page, with the word source and the rate changed on the way
CursorNeverMovesBackWitness ==
    /\ StatusKind = "Reading stopped"
    /\ Idle
    /\ Cursor = <<1, 0>>
    /\ speechRate = 12
    /\ ~skipHeaderFooter
    /\ ~isImageView

(***************************************************************************)
(* C23: a run of AdvanceAndSpeak that finds the word index of the cursor   *)
(* at or beyond the length of the effective word list of its page (an      *)
(* empty page included) speaks nothing of that page: it moves the cursor   *)
(* to word 0 of a later page, every page it passes over has no effective   *)
(* word and gets no utterance, and the one utterance it dispatches, if     *)
(* any, is the first word of the page it stops at; if no page with a word  *)
(* follows, it dispatches nothing and finishes.                            *)
(***************************************************************************)
\* the word index of the cursor is past the effective words of its page
PastEndOfPage ==
    /\ currentPDF # 0
    /\ currentPageIndex < PageCount(St)
    /\ currentWordIndex >= Len(EffectivePage(currentPageIndex + 1))

RollsToNextPage ==
    [][ (PastEndOfPage /\ RunsAdvanceAndSpeak)
        => /\ currentPageIndex' > currentPageIndex
           /\ currentWordIndex' = 0
           /\ \A p \in (currentPageIndex + 1)..(currentPageIndex' - 1) :
                  EffectivePage(p + 1) = <<>>
           /\ IF currentPageIndex' < PageCount(St)
              THEN /\ EffectivePage(currentPageIndex' + 1) # <<>>
                   /\ synth.queue' =
                        Append(synth.queue,
                               [text |-> EffectivePage(currentPageIndex' + 1)[1].word,
                                rate |-> Min(speechRate, 10),
                                at |-> <<currentPageIndex', 0>>,
                                started |-> FALSE])
              ELSE /\ currentPageIndex' = PageCount(St)
                   /\ synth.queue' = <<>>
                   /\ Finished' ]_vars

\* a document of three pages without a processed word has been played to its
\* end: the cursor is past the last page and nothing was handed to the
\* capability
RollsToNextPageWitness ==
    /\ currentPDF = 3
    /\ skipHeaderFooter
    /\ Finished
    /\ Cursor = <<3, 0>>
    /\ synth.queue = <<>>
    /\ stale = <<>>
    /\ timers = 0

(***************************************************************************)
(* C24: the rate of every utterance handed to the capability is the        *)
(* smaller of 10 and the value of the last rate change (the stored rate,   *)
(* which a rate change to r sets to r and nothing else changes): no        *)
(* utterance has a rate above 10.                                          *)
(***************************************************************************)
\* the step hands an utterance to the capability: the queue grows, or a Seek
\* empties it and puts its utterance there
Dispatches ==
    /\ synth.queue' # <<>>
    /\ Len(synth.queue') > Len(synth.queue) \/ Seek

RateIsClamped ==
    [][ /\ \A r \in Rates :
              speechRate' # r => ~(~disabled.speedRange /\ Do(handleSpeedChange(St, r)))
        /\ speechRate' # speechRate => SetRate
        /\ Dispatches
            => LET u == synth.queue'[Len(synth.queue')]
               IN  /\ u.rate = (IF speechRate' <= 10 THEN speechRate' ELSE 10)
                   /\ u.rate <= 10 ]_vars

\* the speed control delivered 12 and the word dispatched after it has rate 10
RateIsClampedWitness ==
    /\ speechRate = 12
    /\ Len(synth.queue) = 1
    /\ synth.queue[1].rate = 10
    /\ synth.queue[1].started
    /\ Playing

(***************************************************************************)
(* C25: after a step that dispatches the utterance of the word at the      *)
(* cursor, if the page of the cursor has no image or the text view is      *)
(* active, the word at the cursor is the one word with the speaking mark   *)
(* and no word has the seek-start mark; unless the step is a Seek, the     *)
(* words with the spoken mark are the same as before.                      *)
(***************************************************************************)
MarkedWith(class) == {k \in DOMAIN wordElements : class \in wordElements[k]}

SpeakingMarkAtCursor ==
    /\ MarkedWith("current-word") = {Cursor}
    /\ MarkedWith("clicked-start") = {}

HighlightOnDispatch ==
    [][ ( /\ Dispatches
          /\ \/ ~Docs[currentPDF'].pages[currentPageIndex' + 1].image
             \/ ~isImageView' )
        => /\ SpeakingMarkAtCursor'
           /\ Seek \/ MarkedWith("spoken-word")' = MarkedWith("spoken-word") ]_vars

(***************************************************************************)
(* C25 as amended: after a step that dispatches the utterance of the word  *)
(* at the cursor while the text view is active, the word at the cursor is  *)
(* the one word with the speaking mark and no word has the seek-start      *)
(* mark; unless the step is a Seek, the words with the spoken mark are the *)
(* same as before.  After a dispatch in image view no word has a mark,     *)
(* whether the page of the cursor has an image or not.                     *)
(***************************************************************************)
HighlightOnDispatchInTextView ==
    [][ Dispatches
        => IF isImageView'
           THEN Marks' = {}
           ELSE /\ SpeakingMarkAtCursor'
                /\ Seek \/ MarkedWith("spoken-word")' = MarkedWith("spoken-word") ]_vars

\* the first word of the second page is dispatched in text view while the word
\* of the first page keeps its spoken mark
HighlightOnDispatchInTextViewWitness ==
    /\ ~isImageView
    /\ Playing
    /\ Cursor = <<1, 0>>
    /\ synth.queue # <<>>
    /\ synth.queue[Len(synth.queue)].at = <<1, 0>>
    /\ ~synth.queue[Len(synth.queue)].started
    /\ wordElements = (<<0, 0>> :> {"spoken-word"}) @@ (<<1, 0>> :> {"current-word"})

(***************************************************************************)
(* C26: a Seek to a rendered word first leaves no mark of before the seek  *)
(* on any word and the seek-start mark on the target, and when it has      *)
(* dispatched its utterance, which is that of the target, the target is    *)
(* the word with the speaking mark and no other mark is left.              *)
(***************************************************************************)
\* the Word Index with the one mark class on the word k and no other mark
OnlyMark(k, class) ==
    [j \in DOMAIN wordElements |-> IF j = k THEN {class} ELSE {}]

SeekMarksTarget ==
    [][ \A k \in DOMAIN wordElements :
          SeekTo(k)
          => /\ markClickedStart(St, k[1], k[2]).wordElements
                    = OnlyMark(k, "clicked-start")
             /\ synth.queue' # <<>>
             /\ synth.queue'[Len(synth.queue')].at = k
             /\ ~synth.queue'[Len(synth.queue')].started
             /\ wordElements' = OnlyMark(k, "current-word") ]_vars

\* a Seek to the second word of a page interrupted the utterance of another
\* word: the target is the only marked word, and it is the speaking word
SeekMarksTargetWitness ==
    /\ StatusKind = "Started reading from page"
    /\ ~isImageView
    /\ stale # <<>>
    /\ stale[Len(stale)].by = "Stop"
    /\ Cursor = <<0, 1>>
    /\ Len(synth.queue) = 1
    /\ synth.queue[1].at = <<0, 1>>
    /\ wordElements[<<0, 1>>] = {"current-word"}
    /\ Marks = {"current-word"}

(***************************************************************************)
(* C27: the Word Index always holds the word elements of the most recent   *)
(* render pass and no other: its keys are those of the word elements in    *)
(* the page container, each of which shows the word its key has in the     *)
(* effective word list.  A render pass leaves no mark; any other step      *)
(* keeps the elements of the index and puts a mark only on the element     *)
(* the index has for the cursor at that time (the speaking mark at the     *)
(* cursor the step leaves, the spoken mark at the cursor it found); and a  *)
(* Seek comes from a word element in the page container.  This holds also  *)
(* when the pages are rendered anew while an utterance is in flight.       *)
(***************************************************************************)
\* the word elements in the page container, as <<key, text>>
RenderedWords ==
    UNION { { <<pdfPages.pages[i].nodes[j].key, pdfPages.pages[i].nodes[j].data>> :
                 j \in {n \in 1..Len(pdfPages.pages[i].nodes) :
                           pdfPages.pages[i].nodes[n].type = "span"} } :
            i \in 1..Len(pdfPages.pages) }

IndexIsOfLastRender ==
    /\ DOMAIN wordElements = {e[1] : e \in RenderedWords}
    /\ \A e \in RenderedWords :
           /\ e[1][2] < Len(WordsOfPage(St, e[1][1]))
           /\ e[2] = WordsOfPage(St, e[1][1])[e[1][2] + 1].word

MarksThroughCurrentIndex ==
    /\ []IndexIsOfLastRender
    /\ [][ /\ Marks' # {} => ~RenderPass
           /\ ( \/ DOMAIN wordElements' # DOMAIN wordElements
                \/ \E k \in DOMAIN wordElements' :
                     \E class \in wordElements'[k] :
                        /\ ~(k \in DOMAIN wordElements /\ class \in wordElements[k])
                        /\ ~(class = "current-word" /\ k = Cursor')
                        /\ ~(class = "spoken-word" /\ k = Cursor) )
              => RenderPass
           /\ Cursor' \notin {e[1] : e \in RenderedWords} => ~Seek ]_vars

\* "on" began to be spoken as word (0,0) with skip on, skip was switched off
\* and the pages rendered anew, and the end of the utterance put the spoken
\* mark on the element that the new index has for (0,0), the header word
MarksThroughCurrentIndexWitness ==
    /\ StatusKind = "Reading page"
    /\ statusText[3] = on
    /\ statusText[5]
    /\ ~skipHeaderFooter
    /\ ~isImageView
    /\ <<<<0, 0>>, <<"H">>>> \in RenderedWords
    /\ wordElements[<<0, 0>>] = {"spoken-word"}
    /\ Cursor = <<0, 1>>
    /\ timers = 1

(***************************************************************************)
(* C28: for every text the words the tokenizer returns have offsets with   *)
(* 0 <= start_pos < end_pos <= length of the text, each word is the text   *)
(* between its offsets, which is a run of word characters with no word     *)
(* character next to it on either side, and each word ends at or before    *)
(* the start of the next; the empty text and a text without word           *)
(* characters give no word.                                                *)
(***************************************************************************)
TokenizerOffsets ==
    LET text == inputText
        words == extractWordsFromText(text)
    IN  /\ \A i \in 1..Len(words) :
              LET w == words[i]
              IN  /\ 0 <= w.start_pos
                  /\ w.start_pos < w.end_pos
                  /\ w.end_pos <= Len(text)
                  /\ w.word = SubSeq(text, w.start_pos + 1, w.end_pos)
                  /\ \A k \in w.start_pos..(w.end_pos - 1) : text[k + 1] \in WordChars
                  /\ w.start_pos = 0 \/ text[w.start_pos] \notin WordChars
                  /\ w.end_pos = Len(text) \/ text[w.end_pos + 1] \notin WordChars
        /\ \A i \in 1..(Len(words) - 1) : words[i].end_pos <= words[i + 1].start_pos
        /\ (\A k \in 1..Len(text) : text[k] \notin WordChars) => words = <<>>

\* "a_ a" has been tokenized and rendered: two words, at offsets 0..2 and 3..4
TokenizerOffsetsWitness ==
    /\ inputText = <<"a", "_", " ", "a">>
    /\ extractWordsFromText(inputText)
         = << [word |-> <<"a", "_">>, start_pos |-> 0, end_pos |-> 2],
              [word |-> <<"a">>, start_pos |-> 3, end_pos |-> 4] >>
    /\ container = << SpanNode(<<"a", "_">>, <<0, 0>>), TextNode(<<" ">>),
                      SpanNode(<<"a">>, <<0, 1>>) >>

(***************************************************************************)
(* C29: while isPlaying is false no utterance is outstanding and no word   *)
(* carries the speaking mark, and no step dispatches an utterance from     *)
(* such a state other than Play (by button or key) and Seek: a Stop in the *)
(* gap between two words keeps the next word from being spoken.            *)
(***************************************************************************)
NothingOutstandingWhenNotPlaying ==
    /\ [](~isPlaying => synth.queue = <<>> /\ "current-word" \notin Marks)
    /\ [][(~isPlaying /\ Dispatches) => (Play \/ KeySpace \/ Seek)]_vars

(***************************************************************************)
(* C30: isPaused implies isPlaying, so the flags are never (false, true),  *)
(* and isPaused is true only while the capability is suspended and holds   *)
(* an outstanding utterance.                                               *)
(***************************************************************************)
PausedImpliesPlaying ==
    /\ isPaused => isPlaying
    /\ isPaused => synth.paused /\ synth.queue # <<>>

(***************************************************************************)
(* C31: in a reading left to itself, where every utterance is started and  *)
(* ended and every timer runs, an engine that is playing eventually        *)
(* reaches Finished, whatever the document (pages without words, no word   *)
(* at all), the word source, the view and the rate; and a run of           *)
(* AdvanceAndSpeak stops at the latest when it has passed the last page:   *)
(* it never leaves the page index beyond the page count.                   *)
(***************************************************************************)
ReadingTerminates ==
    /\ isPlaying ~> Finished
    /\ [][ (RunsAdvanceAndSpeak /\ currentPageIndex <= PageCount(St))
           => currentPageIndex' <= PageCount(St) ]_vars

\* the document whose only word is on its second page, between two pages
\* without words, has been read to its end: one utterance, then Finished
ReadingTerminatesWitness ==
    /\ currentPDF = 3
    /\ ~skipHeaderFooter
    /\ Finished
    /\ dispatched = << [at |-> <<1, 0>>, text |-> <<"H">>] >>
    /\ Cursor = <<3, 0>>
    /\ timers = 0

(***************************************************************************)
(* C32: whenever a document is loaded, the cached word lists are one list  *)
(* per page of that document, the processed words of the page when skip is *)
(* on and the tokenization of its original text when skip is off, whatever *)
(* uploads and skip toggles (before or after the first upload) came        *)
(* before.                                                                 *)
(***************************************************************************)
WordListsAgree ==
    currentPDF # 0 =>
        /\ Len(currentWordsData) = Len(Docs[currentPDF].pages)
        /\ \A i \in 1..Len(Docs[currentPDF].pages) :
               currentWordsData[i] =
                   IF skipHeaderFooter
                   THEN Docs[currentPDF].pages[i].words
                   ELSE extractWordsFromText(Docs[currentPDF].pages[i].original_text)

\* the three-page document arrived with skip off in a later upload, after the
\* cursor had been moved to the second page
WordListsAgreeWitness ==
    /\ currentPDF = 3
    /\ ~skipHeaderFooter
    /\ StatusKind = "PDF loaded successfully."
    /\ Idle
    /\ synth.queue = <<>>
    /\ Cursor = <<1, 0>>
    /\ currentWordsData = << <<>>, <<[word |-> <<"H">>, start_pos |-> 0, end_pos |-> 1]>>, <<>> >>

(***************************************************************************)
(* C33: once a document is loaded, the play control is disabled exactly    *)
(* when the engine is playing and not paused, and the pause control is     *)
(* enabled exactly then.                                                   *)
(***************************************************************************)
ControlsFollowEngine ==
    currentPDF # 0 =>
        /\ disabled.playBtn <=> Playing
        /\ ~disabled.pauseBtn <=> Playing

(***************************************************************************)
(* C34: with a document loaded, once the class has written the label of    *)
(* the view-toggle control (the label before that comes from the markup of *)
(* the page), the label is "Switch to Text View" exactly when image view   *)
(* is the stored view mode and "Switch to Image View" exactly when text    *)
(* view is, and every rendered page is in the stored view mode.            *)
(***************************************************************************)
ViewLabelAgrees ==
    (currentPDF # 0 /\ textContent.toggleViewBtn # "") =>
        /\ textContent.toggleViewBtn = "Switch to Text View" <=> isImageView
        /\ textContent.toggleViewBtn = "Switch to Image View" <=> ~isImageView
        /\ \A i \in 1..Len(pdfPages.pages) :
               pdfPages.pages[i].className =
                   IF isImageView THEN "image-view" ELSE "text-view"


(***************************************************************************)
(* The array-based variant of the component (src/unnamed/part_000).  Its   *)
(* state is a record a with the fields of St except currentWordsData: it   *)
(* keeps no word lists, and its wordElements is the array of the word      *)
(* elements in the order they were created, each with its data attributes  *)
(* and its class list.  The speech capability, updateStatus,               *)
(* updateControlsState, enableControls, handlePause, handleSpeedChange,     *)
(* handleUpload, getHeaderFooterInfo, extractWordsFromText, onstart and     *)
(* onerror have the same text in both files and are not repeated.          *)
(***************************************************************************)
Digits == <<"0", "1", "2", "3", "4", "5", "6", "7", "8", "9">>

\* Number.prototype.toString() of an integer
RECURSIVE toString(_)
toString(n) ==
    IF n < 0 THEN <<"-">> \o toString(0 - n)
    ELSE IF n < 10 THEN << Digits[n + 1] >>
    ELSE toString(n \div 10) \o << Digits[(n % 10) + 1] >>

\* the word element createWordElements makes for word wordIndex of page pageIndex
WordElement(pageIndex, wordIndex) ==
    [pageIndex |-> toString(pageIndex), wordIndex |-> toString(wordIndex),
     classList |-> {}]

\* the position in the array of the first element with the data attributes, or
\* 0 for null
findWordElementArr(a, pageIndex, wordIndex) ==
    LET found == {i \in 1..Len(a.wordElements) :
                     /\ a.wordElements[i].pageIndex = toString(pageIndex)
                     /\ a.wordElements[i].wordIndex = toString(wordIndex)}
    IN  IF found = {} THEN 0 ELSE CHOOSE i \in found : \A j \in found : i <= j

\* classList.remove(classes) on every element of the array
RemoveFromAll(elements, classes) ==
    [i \in 1..Len(elements) |->
        [elements[i] EXCEPT !.classList = @ \ classes]]

clearHighlightingArr(a) ==
    [a EXCEPT !.wordElements = RemoveFromAll(@, HighlightClasses)]

highlightCurrentWordArr(a) ==
    LET cleared == RemoveFromAll(a.wordElements, {"current-word", "clicked-start"})
        wordElement == findWordElementArr(a, a.currentPageIndex, a.currentWordIndex)
    IN  IF wordElement # 0
        THEN [a EXCEPT !.wordElements =
                 [cleared EXCEPT ![wordElement].classList = @ \cup {"current-word"}]]
        ELSE [a EXCEPT !.wordElements = cleared]

markWordAsSpokenArr(a) ==
    LET wordElement == findWordElementArr(a, a.currentPageIndex, a.currentWordIndex)
    IN  IF wordElement # 0
        THEN [a EXCEPT !.wordElements[wordElement].classList =
                 (@ \ {"current-word"}) \cup {"spoken-word"}]
        ELSE a

handleStopArr(a) ==
    LET a1 == cancel(a, "Stop")
        a2 == [a1 EXCEPT !.isPlaying = FALSE, !.isPaused = FALSE]
        a3 == clearHighlightingArr(a2)
        a4 == updateControlsState(a3)
    IN  updateStatus(a4, <<"Reading stopped">>)

\* WordsOfPageArr that is the processed words of the page, whatever the source
WordsOfPageArrProcessed(a, pageIndex) ==
    Docs[a.currentPDF].pages[pageIndex + 1].words

\* wordsToUse of startReading, jumpToWordAndPlay and renderPDF for the page at
\* list position pageIndex: the processed words, or the original text tokenized
\* (OriginalWords holds extractWordsFromText(page.original_text) of every page)
WordsOfPageArr(a, pageIndex) ==
    IF a.skipHeaderFooter
    THEN Docs[a.currentPDF].pages[pageIndex + 1].words
    ELSE OriginalWords[a.currentPDF][pageIndex + 1]

UtteranceArr(a, currentWord) ==
    [text |-> currentWord.word,
     rate |-> Min(a.speechRate, 10),
     at |-> <<a.currentPageIndex, a.currentWordIndex>>,
     started |-> FALSE]

\* The branch for a page missing from the list (part_000:415-418) is taken for a
\* negative page index only; the one for a null entry of the word list
\* (part_000:433-437) needs a word list with a hole in it.
RECURSIVE startReadingArr(_)
startReadingArr(a) ==
    IF a.currentPDF = 0 \/ a.currentPageIndex >= PageCount(a)
    THEN updateStatus(handleStopArr(a), <<"Finished reading the document.">>)
    ELSE IF a.currentPageIndex < 0
    THEN handleStopArr(a)
    ELSE LET wordsToUse == WordsOfPageArr(a, a.currentPageIndex)
         IN  IF a.currentWordIndex >= Len(wordsToUse)
             THEN startReadingArr([a EXCEPT !.currentPageIndex = @ + 1,
                                            !.currentWordIndex = 0])
             ELSE LET currentWord == wordsToUse[a.currentWordIndex + 1]
                      a1 == IF ~a.isImageView THEN highlightCurrentWordArr(a) ELSE a
                  IN  speak(a1, UtteranceArr(a, currentWord))

\* currentUtterance.onend
onendArr(a) ==
    IF a.isPlaying /\ ~a.isPaused
    THEN LET a1 == IF ~a.isImageView THEN markWordAsSpokenArr(a) ELSE a
         IN  [a1 EXCEPT !.currentWordIndex = @ + 1, !.timers = @ + 1]
    ELSE a

handlePlayArr(a) ==
    IF a.currentPDF = 0
    THEN a
    ELSE IF a.isPaused
    THEN updateControlsState([resume(a) EXCEPT !.isPaused = FALSE])
    ELSE updateControlsState(startReadingArr([a EXCEPT !.isPlaying = TRUE]))

jumpToWordAndPlayArr(a, pageIndex, wordIndex) ==
    IF ~a.isImageView /\ a.currentPDF # 0
    THEN LET a1 == IF a.isPlaying THEN handleStopArr(a) ELSE a
             a2 == [a1 EXCEPT !.currentPageIndex = pageIndex,
                              !.currentWordIndex = wordIndex]
             a3 == clearHighlightingArr(a2)
             clickedWordElement == findWordElementArr(a3, pageIndex, wordIndex)
             a4 == IF clickedWordElement # 0
                   THEN [a3 EXCEPT !.wordElements[clickedWordElement].classList =
                                       @ \cup {"clicked-start"}]
                   ELSE a3
             a5 == [a4 EXCEPT !.isPlaying = TRUE, !.isPaused = FALSE]
             a6 == updateControlsState(startReadingArr(a5))
         IN  IF pageIndex >= 0 /\ pageIndex < PageCount(a6)
                /\ wordIndex < Len(WordsOfPageArr(a6, pageIndex))
             THEN updateStatus(a6, <<"Started reading from page", pageIndex + 1,
                                     WordsOfPageArr(a6, pageIndex)[wordIndex + 1].word>>)
             ELSE a6
    ELSE a

togglePlayPauseArr(a) ==
    IF a.currentPDF = 0 \/ ~a.keyboardListenerActive
    THEN a
    ELSE IF ~a.isPlaying
    THEN IF ~a.disabled.playBtn THEN handlePlayArr(a) ELSE a
    ELSE IF ~a.isPaused
    THEN IF ~a.disabled.pauseBtn THEN handlePause(a) ELSE a
    ELSE IF ~a.disabled.playBtn THEN handlePlayArr(a) ELSE a

\* the block renderPDF appends for the page at list position i - 1; the word
\* elements carry the page index page_number - 1
PageBlockArr(a, i) ==
    LET page == Docs[a.currentPDF].pages[i]
        className == IF a.isImageView THEN "image-view" ELSE "text-view"
    IN  IF a.isImageView /\ page.image
        THEN [className |-> className, kind |-> "img", nodes |-> <<>>]
        ELSE IF a.isImageView /\ ~page.image
        THEN [className |-> className, kind |-> "message", nodes |-> <<>>]
        ELSE LET textToUse == IF a.skipHeaderFooter
                              THEN page.processed_text
                              ELSE page.original_text
                 wordsToUse == WordsOfPageArr(a, i - 1)
             IN  [className |-> className, kind |-> "page-text",
                  nodes |-> createWordElements(page.page_number - 1, textToUse,
                                               wordsToUse)]

IsSpan(node) == node.type = "span"

\* the word elements of the blocks, in the order createWordElements made them
RECURSIVE Spans(_)
Spans(blocks) ==
    IF blocks = <<>>
    THEN <<>>
    ELSE SelectSeq(Head(blocks).nodes, IsSpan) \o Spans(Tail(blocks))

renderPDFArr(a) ==
    IF a.currentPDF = 0
    THEN a
    ELSE LET doc == Docs[a.currentPDF]
             blocks == [i \in 1..Len(doc.pages) |-> PageBlockArr(a, i)]
             spans == Spans(blocks)
         IN  [a EXCEPT !.wordElements =
                           [n \in 1..Len(spans) |->
                               WordElement(spans[n].key[1], spans[n].key[2])],
                       !.pdfPages = [info |-> doc.header_patterns > 0
                                                \/ doc.footer_patterns > 0,
                                     skipInfo |-> a.skipHeaderFooter,
                                     pages |-> blocks]]

toggleViewArr(a) ==
    IF a.currentPDF = 0
    THEN a
    ELSE LET a1 == [a EXCEPT !.isImageView = ~@]
             a2 == [a1 EXCEPT !.textContent.toggleViewBtn =
                        IF a1.isImageView THEN "Switch to Text View"
                                          ELSE "Switch to Image View"]
         IN  renderPDFArr(a2)

handleSkipHeaderFooterChangeArr(a, checked) ==
    LET a1 == [a EXCEPT !.skipHeaderFooter = checked]
    IN  IF a1.currentPDF # 0
        THEN renderPDFArr(a1)
        ELSE a1

\* the request of handleUpload resolved with document data
uploadResolvedArr(a, data) ==
    LET a1 == [a EXCEPT !.uploads = @ - 1, !.currentPDF = data]
        a2 == renderPDFArr(a1)
        a3 == [enableControls(a2) EXCEPT !.keyboardListenerActive = TRUE]
    IN  updateStatus(a3, <<"PDF loaded successfully.", getHeaderFooterInfo(a3)>>)

\* the state after construction
ConstructedArr(dis) ==
    [currentPDF |-> 0, isPlaying |-> FALSE, isPaused |-> FALSE,
     currentPageIndex |-> 0, currentWordIndex |-> 0, speechRate |-> 1,
     wordElements |-> <<>>, keyboardListenerActive |-> TRUE,
     isImageView |-> TRUE, skipHeaderFooter |-> TRUE,
     synth |-> [queue |-> <<>>, paused |-> FALSE],
     timers |-> 0, stale |-> <<>>, uploads |-> 0,
     disabled |-> dis,
     textContent |-> [playBtn |-> "", toggleViewBtn |-> ""],
     statusText |-> <<>>,
     pdfPages |-> [info |-> FALSE, skipInfo |-> TRUE, pages |-> <<>>],
     observe |-> FALSE, dispatched |-> <<>>]

\* the array-based variant brought to where Loaded brings the map-based one
LoadedArr(d, skip, textView, rate) ==
    LET a0 == ConstructedArr([c \in Controls |-> TRUE])
        a1 == handleSkipHeaderFooterChangeArr(a0, skip)
        a2 == handleSpeedChange(a1, rate)
        a3 == uploadResolvedArr(handleUpload(a2, TRUE), d)
    IN  IF textView THEN toggleViewArr(a3) ELSE a3

(***************************************************************************)
(* Reading in text view: a document of UploadDocs has been loaded with the  *)
(* word source and the rate as constructed, and the view switched          *)
(* to text; from then on there is no upload and no change of view, and     *)
(* every other command and event: the playback and rate controls, the word *)
(* source, the keyboard, clicks on words, and the events of the speech     *)
(* capability, of cancelled utterances and of timers.                      *)
(***************************************************************************)
InitText ==
    /\ NoText
    /\ \E d \in UploadDocs : IsState(Loaded(d, TRUE, TRUE, 1))

NextText ==
    \/ Play \/ Pause \/ Stop \/ SetRate \/ SetWordSource
    \/ KeySpace \/ Seek
    \/ SpeechStart \/ SpeechEnd \/ SpeechError
    \/ StaleEnd \/ StaleError \/ Timer

SpecText == InitText /\ [][NextText]_vars

(***************************************************************************)
(* The state of the array-based variant that corresponds to a state s of   *)
(* the map-based one: the same fields without the cached word lists, and   *)
(* as wordElements the rendered word elements in document order, each      *)
(* with the class list the Word Index has for it.                          *)
(***************************************************************************)
AsArray(s) ==
    LET spans == Spans(s.pdfPages.pages)
    IN  [currentPDF |-> s.currentPDF, isPlaying |-> s.isPlaying,
         isPaused |-> s.isPaused,
         currentPageIndex |-> s.currentPageIndex,
         currentWordIndex |-> s.currentWordIndex,
         speechRate |-> s.speechRate,
         wordElements |->
             [n \in 1..Len(spans) |->
                 [WordElement(spans[n].key[1], spans[n].key[2])
                     EXCEPT !.classList = s.wordElements[spans[n].key]]],
         keyboardListenerActive |-> s.keyboardListenerActive,
         isImageView |-> s.isImageView, skipHeaderFooter |-> s.skipHeaderFooter,
         synth |-> s.synth, timers |-> s.timers, stale |-> s.stale,
         uploads |-> s.uploads, disabled |-> s.disabled,
         textContent |-> s.textContent, statusText |-> s.statusText,
         pdfPages |-> s.pdfPages, observe |-> s.observe,
         dispatched |-> s.dispatched]

\* the state s with the calls of speak() of the next step recorded on their own
Observed(s) == [s EXCEPT !.observe = TRUE, !.dispatched = <<>>]

\* the two variants, in corresponding states, have arrived at states m and a
SameOutcome(m, a) ==
    /\ AsArray(m) = a
    /\ <<m.currentPageIndex, m.currentWordIndex>>
           = <<a.currentPageIndex, a.currentWordIndex>>
    /\ <<m.isPlaying, m.isPaused>> = <<a.isPlaying, a.isPaused>>
    /\ m.dispatched = a.dispatched
    /\ m.synth = a.synth

\* the documents of the model have the page numbers 1, 2, ... in list order
PageNumbersArePositions ==
    \A d \in DocIds : \A i \in 1..Len(Docs[d].pages) : Docs[d].pages[i].page_number = i

(***************************************************************************)
(* C35: the documents have their pages numbered by list position, and the  *)
(* two variants stay in step in text view.  They start in corresponding    *)
(* states (the loaded document shown as text), and from every state the    *)
(* map-based variant reaches, each user command and each event that the    *)
(* state allows takes the array-based variant, from the corresponding      *)
(* state, to the state that corresponds to the one the map-based variant   *)
(* goes to: the same cursor, the same playback flags, the same utterances  *)
(* handed to speak() in the same order, and the same queue, timers,        *)
(* controls, status, pages and marks, so that the next step starts from    *)
(* corresponding states again.                                             *)
(***************************************************************************)
VariantsStayInStep ==
    LET m == Observed(St)
        a == AsArray(m)
        spans == Spans(pdfPages.pages)
    IN  /\ PageNumbersArePositions
        /\ ~isImageView /\ currentPDF # 0
        /\ IsState(Loaded(currentPDF, skipHeaderFooter, TRUE, speechRate))
              => AsArray(St) = LoadedArr(currentPDF, skipHeaderFooter, TRUE, speechRate)
        /\ ~disabled.playBtn => SameOutcome(handlePlay(m), handlePlayArr(a))
        /\ ~disabled.pauseBtn => SameOutcome(handlePause(m), handlePause(a))
        /\ ~disabled.stopBtn => SameOutcome(handleStop(m), handleStopArr(a))
        /\ ~disabled.speedRange =>
              \A r \in Rates :
                  SameOutcome(handleSpeedChange(m, r), handleSpeedChange(a, r))
        /\ ~disabled.skipHeaderFooter =>
              \A b \in BOOLEAN :
                  SameOutcome(handleSkipHeaderFooterChange(m, b),
                              handleSkipHeaderFooterChangeArr(a, b))
        /\ SameOutcome(togglePlayPause(m), togglePlayPauseArr(a))
        /\ \A n \in 1..Len(spans) :
              LET k == spans[n].key
              IN  /\ k \in DOMAIN wordElements
                  /\ SameOutcome(jumpToWordAndPlay(m, k[1], k[2]),
                                 jumpToWordAndPlayArr(a, k[1], k[2]))
        /\ (Len(synth.queue) > 0 /\ ~synth.queue[1].started /\ ~synth.paused) =>
              SameOutcome(onstart([m EXCEPT !.synth.queue[1].started = TRUE],
                                  synth.queue[1]),
                          onstart([a EXCEPT !.synth.queue[1].started = TRUE],
                                  synth.queue[1]))
        /\ (speaking(St) /\ ~synth.paused) =>
              SameOutcome(onend([m EXCEPT !.synth.queue = Tail(@)]),
                          onendArr([a EXCEPT !.synth.queue = Tail(@)]))
        /\ Len(synth.queue) > 0 =>
              SameOutcome(onerror([m EXCEPT !.synth.queue = Tail(@)]),
                          onerror([a EXCEPT !.synth.queue = Tail(@)]))
        /\ (Len(stale) > 0 /\ stale[1].started) =>
              SameOutcome(onend([m EXCEPT !.stale = Tail(@)]),
                          onendArr([a EXCEPT !.stale = Tail(@)]))
        /\ Len(stale) > 0 =>
              SameOutcome(onerror([m EXCEPT !.stale = Tail(@)]),
                          onerror([a EXCEPT !.stale = Tail(@)]))
        /\ timers > 0 =>
              SameOutcome(startReading([m EXCEPT !.timers = @ - 1]),
                          startReadingArr([a EXCEPT !.timers = @ - 1]))

\* the two-page document is being read in text view from the original text:
\* the first word element of page 1 is marked as spoken and the second word of
\* the page, which only the tokenized original text has, is the utterance in
\* progress; the array-based variant finds its element, the second of the
\* array, by the data attributes "0" and "1"
VariantsStayInStepWitness ==
    /\ currentPDF = 2
    /\ ~isImageView
    /\ ~skipHeaderFooter
    /\ Playing
    /\ Cursor = <<0, 1>>
    /\ Len(synth.queue) = 1
    /\ synth.queue[1].text = on
    /\ synth.queue[1].started
    /\ "spoken-word" \in wordElements[<<0, 0>>]
    /\ findWordElementArr(AsArray(St), 0, 1) = 2
    /\ AsArray(St).wordElements[2] =
           [pageIndex |-> <<"0">>, wordIndex |-> <<"1">>,
            classList |-> {"current-word"}]

====
